---- MODULE Spec2Model ----
(***************************************************************************)
(* Model of streamlit_app.py: the load_data pipeline (encoding-resilient   *)
(* read, wide-to-long melt, region-key normalisation, per-region centroid, *)
(* left merge, count coercion, dropna) and the dashboard's map-mode        *)
(* aggregation (filter, groupby-sum, share of total).                      *)
(*                                                                         *)
(* Text is modelled as a sequence of one-character strings.  The Korean    *)
(* literals of the source are written in ASCII:                            *)
(*   "S","U"       the two characters of the prefix literal of line 48     *)
(*   "crime_major" the first id column of line 31                          *)
(*   "crime_minor" the second id column of line 31                         *)
(*   "sido"        the jurisdiction column of line 42                      *)
(*   "sigungu"     the region column (lines 35, 48, 51, 54, 62)            *)
(*   "lat", "lon"  the coordinate columns (lines 55, 56)                   *)
(*   "count"       the value column of line 36                             *)
(*   "SEOUL"       the jurisdiction literal of line 42                     *)
(*   "ALL"         the "everything" option of lines 113 and 116            *)
(***************************************************************************)
EXTENDS Integers, Sequences, FiniteSets

VARIABLES
    key_raw,         \* a raw region-key string, as authored in either file
    crime_keys,      \* the key after 0, 1, 2, ... passes of the line-48 normaliser
    coord_keys,      \* the key before and, once applied, after the line-51 normaliser
    pc,              \* position of the script run
    crime_file,      \* the crime CSV: path, encodings that parse it, its table
    coord_file,      \* the coordinate CSV, likewise
    df_long,         \* df_long of line 33 (unset: the empty frame)
    df_gu_coord,     \* df_gu_coord of line 54: region key -> mean lat / lon
    df_merged,       \* df_merged of line 60, before lines 71-72
    exc,             \* <<>> or <<e>>: the exception raised inside the try block
    report,          \* <<>> or <<r>>: what the except clause showed with st.error
    df_raw,          \* the frame load_data returned (line 91)
    selected_major,  \* line 114
    selected_minor,  \* line 122
    selected_gu_detail, \* line 132
    df_filtered,     \* line 124-126
    df_map,          \* line 148: region key -> total_count, lat, lon
    ratio,           \* line 162: region key -> share of total, as an exact fraction
    warned,          \* line 155 was shown
    df_major         \* line 226: major category -> summed count

key_vars == <<key_raw, crime_keys, coord_keys>>

load_vars == <<crime_file, coord_file, df_long, df_gu_coord, df_merged, exc, report, df_raw>>

view_vars == <<selected_major, selected_minor, selected_gu_detail, df_filtered,
               df_map, ratio, warned, df_major>>

vars == <<key_vars, pc, load_vars, view_vars>>

\* ------------------------------------------------------------------ bounds
MaxKeyLen == 4      \* longest raw key explored by SpecKey
MaxPasses == 2      \* how often the line-48 normaliser is re-applied
MaxRows == 2        \* rows of a generated crime table
MaxCols == 2        \* region columns of a generated crime table
MaxCoordRows == 2   \* rows of a generated coordinate table

\* ------------------------------------------------------------ text helpers
Whitespace == {" "}
seoul_prefix == <<"S", "U">>
KeyAlphabet == {"S", "U", " ", "a"}

RECURSIVE StringsUpTo(_)
StringsUpTo(n) ==
    IF n = 0 THEN {<<>>}
    ELSE LET shorter == StringsUpTo(n - 1)
         IN shorter \cup {Append(s, c) : s \in {t \in shorter : Len(t) = n - 1},
                                         c \in KeyAlphabet}

StartsWith(s, p) == Len(s) >= Len(p) /\ SubSeq(s, 1, Len(p)) = p

\* str.replace(old, ''): every non-overlapping occurrence, scanning left to
\* right once; text that the removals bring together is not rescanned.
RECURSIVE str_replace(_, _)
str_replace(s, old) ==
    IF s = <<>> THEN <<>>
    ELSE IF StartsWith(s, old) THEN str_replace(SubSeq(s, Len(old) + 1, Len(s)), old)
    ELSE <<Head(s)>> \o str_replace(Tail(s), old)

RECURSIVE str_lstrip(_)
str_lstrip(s) ==
    IF s # <<>> /\ Head(s) \in Whitespace THEN str_lstrip(Tail(s)) ELSE s

RECURSIVE str_rstrip(_)
str_rstrip(s) ==
    IF s # <<>> /\ s[Len(s)] \in Whitespace THEN str_rstrip(SubSeq(s, 1, Len(s) - 1))
    ELSE s

\* str.strip(): leading and trailing whitespace removed.
str_strip(s) == str_rstrip(str_lstrip(s))

\* Line 48: .str.replace(prefix, '').str.strip()
MutNormalizeNoStrip(s) == str_replace(s, seoul_prefix)
normalize_crime_key(s) == str_strip(str_replace(s, seoul_prefix))

\* Line 51: .str.strip() only
normalize_coord_key(s) == str_strip(s)

\* ------------------------------------------------------------ cell values
\* A cell read from a CSV file is a number, a text, or missing (NaN).
NaN == [nan |-> TRUE]
Num(n) == [num |-> n]
Str(s) == [str |-> s]
IsNum(v) == DOMAIN v = {"num"}
IsStr(v) == DOMAIN v = {"str"}

Digits == <<"0", "1", "2", "3", "4", "5", "6", "7", "8", "9">>
DigitValue(c) == (CHOOSE i \in 1..Len(Digits) : Digits[i] = c) - 1
IsDigit(c) == \E i \in 1..Len(Digits) : Digits[i] = c

RECURSIVE ParseDigits(_)
ParseDigits(s) ==
    IF s = <<>> THEN 0
    ELSE ParseDigits(SubSeq(s, 1, Len(s) - 1)) * 10 + DigitValue(s[Len(s)])

\* pd.to_numeric(..., errors='coerce') on one cell (line 71): a number stays,
\* a text of digits is parsed, anything else becomes NaN.  (Signed, decimal
\* and exponent spellings are numeric too; the generated cells hold none.)
to_numeric(v) ==
    IF IsNum(v) THEN v
    ELSE IF IsStr(v) /\ v.str # <<>> /\ \A i \in 1..Len(v.str) : IsDigit(v.str[i])
         THEN Num(ParseDigits(v.str))
    ELSE NaN

\* .fillna(0) on one cell (line 71)
fillna(v, filler) == IF v = NaN THEN Num(filler) ELSE v

\* Line 71, both calls, on one cell
MutCoerceNoFill(v) == to_numeric(v)
coerce_count(v) == fillna(to_numeric(v), 0)

\* ------------------------------------------------------------- data frames
EmptyFrame == [columns |-> {}, rows |-> <<>>]       \* pd.DataFrame()
IsEmpty(df) == df.columns = {} \/ df.rows = <<>>    \* DataFrame.empty

id_cols == <<"crime_major", "crime_minor">>                                   \* line 31
required_cols == {"sigungu", "lat", "lon", "crime_major", "crime_minor", "count"}  \* line 66
encodings == <<"utf-8", "cp949", "euc-kr">>                                   \* line 10
Range(f) == {f[i] : i \in DOMAIN f}

RECURSIVE SumSeq(_)
SumSeq(q) == IF q = <<>> THEN 0 ELSE Head(q) + SumSeq(Tail(q))

\* Series.sum() / mean() skip NaN cells.  Coordinates are fixed-point
\* integers, so the mean is an integer quotient.
NumOrZero(v) == IF IsNum(v) THEN v.num ELSE 0
SumCells(q) == SumSeq([i \in 1..Len(q) |-> NumOrZero(q[i])])
MeanCells(q) ==
    LET present == SelectSeq(q, IsNum)
    IN IF present = <<>> THEN NaN ELSE Num(SumCells(present) \div Len(present))

\* ---------------------------------------------------------------- exceptions
\* An exception is its type and the names its message shows.
KeyError(names) == [type |-> "KeyError", names |-> names]

\* The built-in UnicodeDecodeError takes exactly five arguments (encoding,
\* object, start, end, reason); constructing it with any other number of
\* arguments raises TypeError instead, whose message shows none of them.
UnicodeDecodeError(args) ==
    IF Len(args) = 5
    THEN [type |-> "UnicodeDecodeError", names |-> UNION {a.names : a \in Range(args)}]
    ELSE [type |-> "TypeError", names |-> {}]

Ok(v) == [ok |-> TRUE, value |-> v]
Raise(e) == [ok |-> FALSE, exc |-> e]

\* Lines 12-19: the first encoding that parses the file wins; if none does,
\* line 19 builds the exception from one argument, the message naming the file.
try_read_csv(file) ==
    IF \E i \in 1..Len(encodings) : encodings[i] \in file.decodable
    THEN Ok(file.table)
    ELSE Raise(UnicodeDecodeError(<<[names |-> {file.path}]>>))

\* Lines 33-36: pd.melt.  Every id column that is absent is listed in the
\* KeyError; otherwise every other column is unpivoted, column by column.
MutMeltDropMissing(df, id_vars) ==
    LET R == Len(df.rows)
        K == Len(df.regions)
        all == [i \in 1..(R * K) |->
                 LET r == ((i - 1) % R) + 1
                     k == ((i - 1) \div R) + 1
                 IN [crime_major |-> df.rows[r].crime_major,
                     crime_minor |-> df.rows[r].crime_minor,
                     sigungu     |-> df.regions[k],
                     count       |-> df.rows[r].cells[k]]]
        notnull(row) == row.count # NaN
    IN Ok([columns |-> Range(id_vars) \cup {"sigungu", "count"},
           rows |-> SelectSeq(all, notnull)])
pd_melt(df, id_vars) ==
    LET missing == {c \in Range(id_vars) : c \notin df.columns}
        R == Len(df.rows)
        K == Len(df.regions)
    IN IF missing # {} THEN Raise(KeyError(missing))
       ELSE Ok([columns |-> Range(id_vars) \cup {"sigungu", "count"},
                rows |-> [i \in 1..(R * K) |->
                    LET r == ((i - 1) % R) + 1
                        k == ((i - 1) \div R) + 1
                    IN [crime_major |-> df.rows[r].crime_major,
                        crime_minor |-> df.rows[r].crime_minor,
                        sigungu     |-> df.regions[k],
                        count       |-> df.rows[r].cells[k]]]])

\* Line 42: df_coord[df_coord[sido] == SEOUL]
filter_seoul(df) ==
    IF "sido" \notin df.columns THEN Raise(KeyError({"sido"}))
    ELSE LET seoul(row) == row.sido = "SEOUL"
         IN Ok([df EXCEPT !.rows = SelectSeq(df.rows, seoul)])

\* Line 48 on the whole column
normalize_crime(df) ==
    [df EXCEPT !.rows = [i \in 1..Len(df.rows) |->
        [df.rows[i] EXCEPT !.sigungu = normalize_crime_key(@)]]]

\* Line 51 on the whole column
normalize_coord(df) ==
    IF "sigungu" \notin df.columns THEN Raise(KeyError({"sigungu"}))
    ELSE Ok([df EXCEPT !.rows = [i \in 1..Len(df.rows) |->
                [df.rows[i] EXCEPT !.sigungu = normalize_coord_key(@)]]])

\* Lines 54-57: one entry per distinct key, the means of its samples.  The
\* named aggregation lists every aggregated column that is absent.
groupby_mean(df) ==
    LET missing == {"lat", "lon"} \ df.columns
        keys == {df.rows[i].sigungu : i \in 1..Len(df.rows)}
        of(key, col) ==
            LET mine(row) == row.sigungu = key
                grp == SelectSeq(df.rows, mine)
            IN [i \in 1..Len(grp) |-> grp[i][col]]
    IN IF missing # {} THEN Raise(KeyError(missing))
       ELSE Ok([key \in keys |-> [lat |-> MeanCells(of(key, "lat")),
                                  lon |-> MeanCells(of(key, "lon"))]])

\* Lines 60-63: left merge on the region key; a crime row without a centroid
\* entry gets NaN coordinates.
pd_merge(left, right) ==
    [columns |-> left.columns \cup {"lat", "lon"},
     rows |-> [i \in 1..Len(left.rows) |->
        LET row == left.rows[i]
            hit == row.sigungu \in DOMAIN right
        IN [crime_major |-> row.crime_major,
            crime_minor |-> row.crime_minor,
            sigungu     |-> row.sigungu,
            count       |-> row.count,
            lat         |-> IF hit THEN right[row.sigungu].lat ELSE NaN,
            lon         |-> IF hit THEN right[row.sigungu].lon ELSE NaN]]]

\* Line 72: dropna(subset=[lat, lon])
MutDropnaLatOnly(df) ==
    LET keep(row) == row.lat # NaN
    IN [df EXCEPT !.rows = SelectSeq(df.rows, keep)]
dropna_coords(df) ==
    LET keep(row) == row.lat # NaN /\ row.lon # NaN
    IN [df EXCEPT !.rows = SelectSeq(df.rows, keep)]

\* Lines 66-74
finish_merged(df) ==
    LET missing == required_cols \ df.columns
    IN IF missing # {} THEN Raise(KeyError(missing))
       ELSE Ok(dropna_coords(
                [df EXCEPT !.rows = [i \in 1..Len(df.rows) |->
                    [df.rows[i] EXCEPT !.count = coerce_count(@)]]]))

\* Lines 76-85: the first except clause whose type matches.  Line 77 shows
\* a fixed text; lines 80 and 84 show the exception's message.
except_clause(e) ==
    IF e.type = "UnicodeDecodeError" THEN [handler |-> "UnicodeDecodeError", names |-> {}]
    ELSE IF e.type = "KeyError" THEN [handler |-> "KeyError", names |-> e.names]
    ELSE [handler |-> "Exception", names |-> e.names]

\* Lines 21-74: the try block, with every intermediate frame it got to.
Unset == [exc |-> <<>>, long |-> EmptyFrame, gu |-> <<>>, merged |-> EmptyFrame,
          ret |-> EmptyFrame]
try_block(cfile, xfile) ==
    LET r_crime == try_read_csv(cfile) IN
    IF ~r_crime.ok THEN [Unset EXCEPT !.exc = <<r_crime.exc>>] ELSE
    LET r_coord == try_read_csv(xfile) IN
    IF ~r_coord.ok THEN [Unset EXCEPT !.exc = <<r_coord.exc>>] ELSE
    LET melted == pd_melt(r_crime.value, id_cols) IN
    IF ~melted.ok THEN [Unset EXCEPT !.exc = <<melted.exc>>] ELSE
    LET s1 == [Unset EXCEPT !.long = melted.value]
        seoul == filter_seoul(r_coord.value) IN
    IF ~seoul.ok THEN [s1 EXCEPT !.exc = <<seoul.exc>>] ELSE
    LET crime == normalize_crime(melted.value)
        coord == normalize_coord(seoul.value) IN
    IF ~coord.ok THEN [s1 EXCEPT !.exc = <<coord.exc>>] ELSE
    LET gu == groupby_mean(coord.value) IN
    IF ~gu.ok THEN [s1 EXCEPT !.exc = <<gu.exc>>] ELSE
    LET merged == pd_merge(crime, gu.value)
        s2 == [s1 EXCEPT !.gu = gu.value, !.merged = merged]
        done == finish_merged(merged) IN
    IF ~done.ok THEN [s2 EXCEPT !.exc = <<done.exc>>]
    ELSE [s2 EXCEPT !.ret = done.value]


\* Lines 9-85 and 91: df_raw = load_data()
LoadData ==
    /\ pc = "start"
    /\ LET t == try_block(crime_file, coord_file)
       IN /\ df_long' = t.long
          /\ df_gu_coord' = t.gu
          /\ df_merged' = t.merged
          /\ exc' = t.exc
          /\ report' = IF t.exc = <<>> THEN <<>> ELSE <<except_clause(t.exc[1])>>
          /\ df_raw' = IF t.exc = <<>> THEN t.ret ELSE EmptyFrame
    /\ pc' = "loaded"
    /\ UNCHANGED <<key_vars, crime_file, coord_file, view_vars>>

\* Lines 97-99
StopIfEmpty ==
    /\ pc = "loaded"
    /\ IsEmpty(df_raw)
    /\ pc' = "stopped"
    /\ UNCHANGED <<key_vars, load_vars, view_vars>>

rows_where(rows, col, value) ==
    LET keep(row) == row[col] = value IN SelectSeq(rows, keep)
column(rows, col) == [i \in 1..Len(rows) |-> rows[i][col]]
unique(rows, col) == {rows[i][col] : i \in 1..Len(rows)}

\* Line 149: total_count = (count, 'sum')
MutAggFirst(counts) == NumOrZero(counts[1])
agg_total_count(counts) == SumCells(counts)

\* Lines 148-152: one entry per region key of the filtered rows
groupby_region(rows) ==
    [key \in unique(rows, "sigungu") |->
        LET grp == rows_where(rows, "sigungu", key)
        IN [total_count |-> agg_total_count(column(grp, "count")),
            lat |-> grp[1].lat,
            lon |-> grp[1].lon]]

RECURSIVE SumTotals(_, _)
SumTotals(f, keys) ==
    IF keys = {} THEN 0
    ELSE LET k == CHOOSE x \in keys : TRUE
         IN f[k].total_count + SumTotals(f, keys \ {k})

\* Line 161: df_map[total_count].sum()
total_sum_all_gu(m) == SumTotals(m, DOMAIN m)

\* Line 162: (total_count / total_sum_all_gu) * 100, kept as an exact fraction
MutShareNoPercent(total_count, total) == [num |-> total_count, den |-> total]
share_of_total(total_count, total) == [num |-> total_count * 100, den |-> total]

\* Line 113 and lines 116-120
major_categories == {"ALL"} \cup unique(df_raw.rows, "crime_major")
filtered_by_major(major) ==
    IF major # "ALL" THEN rows_where(df_raw.rows, "crime_major", major) ELSE df_raw.rows
minor_options(major) ==
    {"ALL"} \cup (IF major # "ALL" THEN unique(filtered_by_major(major), "crime_minor")
                  ELSE {})

\* Lines 110-126 and 144-162: one run of the script in map mode, with the
\* two select boxes at `major` and `minor`.
MapMode ==
    /\ pc = "loaded"
    /\ ~IsEmpty(df_raw)
    /\ \E major \in major_categories : \E minor \in minor_options(major) :
        LET by_major == filtered_by_major(major)
            filtered == IF minor # "ALL" THEN rows_where(by_major, "crime_minor", minor)
                        ELSE by_major
            m == groupby_region(filtered)
            total == total_sum_all_gu(m)
        IN /\ selected_major' = major
           /\ selected_minor' = minor
           /\ df_filtered' = filtered
           /\ df_map' = m
           /\ IF DOMAIN m = {} \/ total = 0
              THEN warned' = TRUE /\ ratio' = <<>>
              ELSE /\ warned' = FALSE
                   /\ ratio' = [key \in DOMAIN m |-> share_of_total(m[key].total_count, total)]
    /\ pc' = "map"
    /\ UNCHANGED <<key_vars, load_vars, selected_gu_detail, df_major>>

\* Lines 129-132 and 216-226: one run of the script in detail mode
DetailMode ==
    /\ pc = "loaded"
    /\ ~IsEmpty(df_raw)
    /\ \E gu \in unique(df_raw.rows, "sigungu") :
        LET df_gu == rows_where(df_raw.rows, "sigungu", gu)
        IN /\ selected_gu_detail' = gu
           /\ df_major' = [major \in unique(df_gu, "crime_major") |->
                  SumCells(column(rows_where(df_gu, "crime_major", major), "count"))]
    /\ pc' = "detail"
    /\ UNCHANGED <<key_vars, load_vars, selected_major, selected_minor, df_filtered,
                   df_map, ratio, warned>>

\* ------------------------------------------------------------------ inputs
crime_path == "seoul_crime_data.csv"     \* line 9
coord_path == "coord.csv"                \* line 9, the coordinate file
coord_cols == {"sido", "sigungu", "lat", "lon"}

LabelPool == << <<"a">>, <<"S", "U", "a">>, <<"b">>, <<"c">> >>
CountPool == <<Num(2), Str(<<"3">>), Str(<<"x">>), NaN>>
CategoryPairs == {<<"M1", "m1">>, <<"M1", "m2">>, <<"M2", "m1">>}
CoordKeyPool == {<<"a">>, <<"a", " ">>, <<"S", "U", "a">>, <<"b">>}
CoordPairs == {<<Num(10), Num(20)>>, <<Num(30), NaN>>, <<NaN, Num(40)>>}

RECURSIVE PickLabels(_, _)
PickLabels(chosen, from) ==
    IF from > Len(LabelPool) THEN <<>>
    ELSE (IF from \in chosen THEN <<LabelPool[from]>> ELSE <<>>)
         \o PickLabels(chosen, from + 1)

SeqsUpTo(S, n) == UNION {[1..m -> S] : m \in 0..n}

CrimeRow(cat, seed, K) ==
    [crime_major |-> cat[1], crime_minor |-> cat[2],
     cells |-> [k \in 1..K |-> CountPool[((seed + k - 2) % Len(CountPool)) + 1]]]

CrimeTables ==
    UNION {
        LET regions == PickLabels(chosen, 1)
            rowpool == {CrimeRow(cat, seed, Len(regions)) :
                           cat \in CategoryPairs, seed \in 1..Len(CountPool)}
        IN {[columns |-> Range(id_cols), regions |-> regions, rows |-> rows] :
               rows \in SeqsUpTo(rowpool, MaxRows)}
        : chosen \in {c \in SUBSET (1..Len(LabelPool)) : Cardinality(c) <= MaxCols}}

CoordRowPool ==
    {[sido |-> sido, sigungu |-> key, lat |-> p[1], lon |-> p[2]] :
        sido \in {"SEOUL", "BUSAN"}, key \in CoordKeyPool, p \in CoordPairs}

CoordTables ==
    {[columns |-> coord_cols, rows |-> rows] : rows \in SeqsUpTo(CoordRowPool, MaxCoordRows)}

RefCrimeTable ==
    [columns |-> Range(id_cols),
     regions |-> LabelPool,
     rows |-> << CrimeRow(<<"M1", "m1">>, 1, Len(LabelPool)),
                 CrimeRow(<<"M2", "m1">>, 2, Len(LabelPool)) >>]

RefCoordTable ==
    [columns |-> coord_cols,
     rows |-> << [sido |-> "SEOUL", sigungu |-> <<"a">>, lat |-> Num(10), lon |-> Num(20)],
                 [sido |-> "SEOUL", sigungu |-> <<"a", " ">>, lat |-> Num(30), lon |-> Num(40)],
                 [sido |-> "SEOUL", sigungu |-> <<"b">>, lat |-> Num(50), lon |-> Num(60)],
                 [sido |-> "BUSAN", sigungu |-> <<"c">>, lat |-> Num(70), lon |-> Num(80)] >>]

File(path, decodable, table) == [path |-> path, decodable |-> decodable, table |-> table]

KeysIdle ==
    /\ key_raw = <<>>
    /\ crime_keys = <<key_raw>>
    /\ coord_keys = <<key_raw>>

LoadUnset ==
    /\ df_long = EmptyFrame
    /\ df_gu_coord = <<>>
    /\ df_merged = EmptyFrame
    /\ exc = <<>>
    /\ report = <<>>
    /\ df_raw = EmptyFrame

ViewUnset ==
    /\ selected_major = "unset"
    /\ selected_minor = "unset"
    /\ selected_gu_detail = <<>>
    /\ df_filtered = <<>>
    /\ df_map = <<>>
    /\ ratio = <<>>
    /\ warned = FALSE
    /\ df_major = <<>>

\* Crime tables of every shape against the reference coordinate table
InitCrimeVaried ==
    /\ crime_file \in {File(crime_path, {"utf-8"}, t) : t \in CrimeTables}
    /\ coord_file = File(coord_path, {"cp949", "euc-kr"}, RefCoordTable)

\* Coordinate tables of every shape against the reference crime table
InitCoordVaried ==
    /\ crime_file = File(crime_path, {"utf-8"}, RefCrimeTable)
    /\ coord_file \in {File(coord_path, {"cp949", "euc-kr"}, t) : t \in CoordTables}

\* Files that parse under any set of encodings, with any set of the columns
\* the code names present
InitSchemaVaried ==
    /\ crime_file \in {File(crime_path, d, [RefCrimeTable EXCEPT !.columns = c]) :
                          d \in SUBSET Range(encodings), c \in SUBSET Range(id_cols)}
    /\ coord_file \in {File(coord_path, d, [RefCoordTable EXCEPT !.columns = c]) :
                          d \in SUBSET Range(encodings), c \in SUBSET coord_cols}

Init ==
    /\ pc = "start"
    /\ KeysIdle
    /\ LoadUnset
    /\ ViewUnset
    /\ (InitCrimeVaried \/ InitCoordVaried \/ InitSchemaVaried)

Next == LoadData \/ StopIfEmpty \/ MapMode \/ DetailMode

Spec == Init /\ [][Next]_vars

\* ---------------------------------------------------- key normaliser spec
InitKey ==
    /\ key_raw \in StringsUpTo(MaxKeyLen)
    /\ crime_keys = <<key_raw>>
    /\ coord_keys = <<key_raw>>
    /\ pc = "keys"
    /\ crime_file = File(crime_path, {"utf-8"}, RefCrimeTable)
    /\ coord_file = File(coord_path, {"utf-8"}, RefCoordTable)
    /\ LoadUnset
    /\ ViewUnset

NormalizeCrimeKey ==
    /\ pc = "keys"
    /\ Len(crime_keys) <= MaxPasses
    /\ crime_keys' = Append(crime_keys, normalize_crime_key(crime_keys[Len(crime_keys)]))
    /\ UNCHANGED <<key_raw, coord_keys, pc, load_vars, view_vars>>

NormalizeCoordKey ==
    /\ pc = "keys"
    /\ Len(coord_keys) = 1
    /\ coord_keys' = Append(coord_keys, normalize_coord_key(coord_keys[1]))
    /\ UNCHANGED <<key_raw, crime_keys, pc, load_vars, view_vars>>

NextKey == NormalizeCrimeKey \/ NormalizeCoordKey

SpecKey == InitKey /\ [][NextKey]_vars

\* ================================================================== claims

Returned == pc \in {"loaded", "stopped", "map", "detail"} /\ exc = <<>>

\* Whether the merged row at position i is present in the returned frame.
\* Rows that agree on identifiers, region and coordinates share their fate.
SameRecord(a, b) ==
    /\ a.crime_major = b.crime_major /\ a.crime_minor = b.crime_minor
    /\ a.sigungu = b.sigungu /\ a.lat = b.lat /\ a.lon = b.lon
InReturned(i) ==
    \E j \in 1..Len(df_raw.rows) : SameRecord(df_raw.rows[j], df_merged.rows[i])
HasCoords(row) == row.lat # NaN /\ row.lon # NaN

\* C1 (as stated): when load_data returns normally, every returned row has a
\* non-null latitude and longitude, and every crime row missing from the
\* returned frame has a region key with no entry in the centroid table.
C1_DroppedOnlyWithoutEntry ==
    Returned =>
        /\ \A j \in 1..Len(df_raw.rows) : HasCoords(df_raw.rows[j])
        /\ \A i \in 1..Len(df_merged.rows) :
              ~InReturned(i) => df_merged.rows[i].sigungu \notin DOMAIN df_gu_coord

\* C1 (amended): when load_data returns normally, every returned row has a
\* non-null latitude and longitude, and every crime row missing from the
\* returned frame has a region key with no centroid entry, or with a centroid
\* entry whose mean latitude or mean longitude is null.
C1_DroppedOnlyWithoutCoords ==
    Returned =>
        /\ \A j \in 1..Len(df_raw.rows) : HasCoords(df_raw.rows[j])
        /\ \A i \in 1..Len(df_merged.rows) :
              ~InReturned(i) =>
                 LET key == df_merged.rows[i].sigungu
                 IN \/ key \notin DOMAIN df_gu_coord
                    \/ df_gu_coord[key].lat = NaN
                    \/ df_gu_coord[key].lon = NaN

C1_Witness ==
    /\ Returned
    /\ \E i \in 1..Len(df_merged.rows) : InReturned(i)
    /\ \E i \in 1..Len(df_merged.rows) :
          ~InReturned(i) /\ df_merged.rows[i].sigungu \notin DOMAIN df_gu_coord
    /\ \E i \in 1..Len(df_merged.rows) :
          ~InReturned(i) /\ df_merged.rows[i].sigungu \in DOMAIN df_gu_coord

BothNormalized == Len(crime_keys) >= 2 /\ Len(coord_keys) = 2

\* C2: a raw key normalised on the crime side (line 48) equals the same raw
\* key normalised on the coordinate side (line 51).
C2_SameNormalization == BothNormalized => crime_keys[2] = coord_keys[2]

\* C3: normalising an already normalised key with the crime-side normaliser
\* returns it unchanged.
C3_Idempotent == Len(crime_keys) >= 3 => crime_keys[3] = crime_keys[2]

RECURSIVE CountPrefix(_)
CountPrefix(s) ==
    IF s = <<>> THEN 0
    ELSE IF StartsWith(s, seoul_prefix)
         THEN 1 + CountPrefix(SubSeq(s, Len(seoul_prefix) + 1, Len(s)))
    ELSE CountPrefix(Tail(s))

\* The other order of the two steps: trim first, then remove the prefix.
TrimThenStrip(s) == str_replace(str_strip(s), seoul_prefix)

\* An occurrence of the prefix directly preceded or followed by whitespace
PrefixTouchesWhitespace(s) ==
    \E i \in 1..Len(s) :
        /\ StartsWith(SubSeq(s, i, Len(s)), seoul_prefix)
        /\ \/ i > 1 /\ s[i - 1] \in Whitespace
           \/ i + Len(seoul_prefix) <= Len(s) /\ s[i + Len(seoul_prefix)] \in Whitespace

MeltDone == df_long.columns # {}

ExpectedLong(r, k) ==
    [crime_major |-> crime_file.table.rows[r].crime_major,
     crime_minor |-> crime_file.table.rows[r].crime_minor,
     sigungu     |-> crime_file.table.regions[k],
     count       |-> crime_file.table.rows[r].cells[k]]

\* C5: the melted frame has exactly R x K rows, and each (input row, region
\* column) pair accounts for exactly one of them, carrying the row's two
\* identifiers, the column's label and the cell's value.
C5_ReshapeFanOut ==
    MeltDone =>
        LET R == Len(crime_file.table.rows)
            K == Len(crime_file.table.regions)
            pairs == (1..R) \X (1..K)
        IN /\ Len(df_long.rows) = R * K
           /\ \A i \in 1..Len(df_long.rows) :
                 \E p \in pairs : df_long.rows[i] = ExpectedLong(p[1], p[2])
           /\ \A p \in pairs :
                 Cardinality({i \in 1..Len(df_long.rows) :
                                 df_long.rows[i] = ExpectedLong(p[1], p[2])})
                 = Cardinality({q \in pairs :
                                 ExpectedLong(q[1], q[2]) = ExpectedLong(p[1], p[2])})

C5_Witness ==
    /\ MeltDone
    /\ Len(crime_file.table.rows) = 2
    /\ Len(crime_file.table.regions) = 2
    /\ Len(df_long.rows) = 4
    /\ \E i \in 1..4 : df_long.rows[i].count = NaN

PassesFilter(row) ==
    /\ selected_major = "ALL" \/ row.crime_major = selected_major
    /\ selected_minor = "ALL" \/ row.crime_minor = selected_minor

\* C6: in map mode, the total_count values of df_map add up to the sum of
\* count over the returned records that pass the selected filter.
C6_AggregationConservation ==
    pc = "map" =>
        total_sum_all_gu(df_map) = SumCells(column(SelectSeq(df_raw.rows, PassesFilter), "count"))

C6_Witness ==
    /\ pc = "map"
    /\ selected_major # "ALL"
    /\ Cardinality(DOMAIN df_map) >= 2
    /\ \E key \in DOMAIN df_map :
          /\ Len(rows_where(df_filtered, "sigungu", key)) >= 2
          /\ df_map[key].total_count > rows_where(df_filtered, "sigungu", key)[1].count.num
    /\ Len(df_filtered) < Len(df_raw.rows)

RECURSIVE SumShareNum(_, _)
SumShareNum(f, keys) ==
    IF keys = {} THEN 0
    ELSE LET k == CHOOSE x \in keys : TRUE
         IN f[k].num + SumShareNum(f, keys \ {k})

\* The shares of every region of df_map are computed and add up to 100.
SharesSumTo100 ==
    /\ DOMAIN ratio = DOMAIN df_map
    /\ \A key \in DOMAIN ratio : ratio[key].den = total_sum_all_gu(df_map)
    /\ SumShareNum(ratio, DOMAIN ratio) = 100 * total_sum_all_gu(df_map)

\* C7 (as stated): when the total over all regions is positive the shares add
\* up to 100; when it is 0 every region has a share, and it is 0.
C7_ShareZeroWhenTotalZero ==
    pc = "map" =>
        /\ total_sum_all_gu(df_map) > 0 => SharesSumTo100
        /\ total_sum_all_gu(df_map) = 0 =>
              \A key \in DOMAIN df_map :
                  key \in DOMAIN ratio /\ ratio[key].num = 0

\* C7 (amended): when the total over all regions is positive the shares add
\* up to 100; when it is 0 no share is computed for any region (the script
\* shows a warning instead), so nothing is divided by zero.
C7_ShareSkippedWhenTotalZero ==
    pc = "map" =>
        /\ total_sum_all_gu(df_map) > 0 => ~warned /\ SharesSumTo100
        /\ total_sum_all_gu(df_map) = 0 => warned /\ DOMAIN ratio = {}

C7_Witness ==
    /\ pc = "map"
    /\ total_sum_all_gu(df_map) > 0
    /\ Cardinality(DOMAIN ratio) >= 2
    /\ \A key \in DOMAIN ratio : ratio[key].num > 0

NonNumeric(v) ==
    \/ v = NaN
    \/ IsStr(v) /\ (v.str = <<>> \/ \E i \in 1..Len(v.str) : ~IsDigit(v.str[i]))

\* Positions of the merged rows that have both coordinates, in order
RECURSIVE KeptPositions(_)
KeptPositions(n) ==
    IF n = 0 THEN <<>>
    ELSE KeptPositions(n - 1) \o (IF HasCoords(df_merged.rows[n]) THEN <<n>> ELSE <<>>)

\* C8: when load_data returns normally, every count of the returned frame is
\* a number; the returned rows are exactly the merged rows that have both
\* coordinates, whatever their count, and a row whose raw count is missing or
\* not numeric has count 0.
C8_ParseOrZero ==
    Returned =>
        LET kept == KeptPositions(Len(df_merged.rows))
        IN /\ Len(df_raw.rows) = Len(kept)
           /\ \A j \in 1..Len(df_raw.rows) :
                 /\ IsNum(df_raw.rows[j].count)
                 /\ j <= Len(kept) =>
                       /\ SameRecord(df_raw.rows[j], df_merged.rows[kept[j]])
                       /\ NonNumeric(df_merged.rows[kept[j]].count) =>
                             df_raw.rows[j].count = Num(0)

C8_Witness ==
    /\ Returned
    /\ \E i \in 1..Len(df_merged.rows) :
          df_merged.rows[i].count = NaN /\ InReturned(i)
    /\ \E i \in 1..Len(df_merged.rows) :
          df_merged.rows[i].count = Str(<<"x">>) /\ InReturned(i)
    /\ \E j \in 1..Len(df_raw.rows) : df_raw.rows[j].count = Num(0)

Loaded == pc \in {"loaded", "stopped", "map", "detail"}
Undecodable(file) == file.decodable \cap Range(encodings) = {}

\* C9: when no candidate encoding parses an input file, the exception raised
\* is a UnicodeDecodeError naming that file, the decode-error clause of
\* load_data reports it, and load_data returns an empty frame.
C9_DecodeErrorNamesFile ==
    (Loaded /\ (Undecodable(crime_file) \/ Undecodable(coord_file))) =>
        /\ exc # <<>>
        /\ exc[1].type = "UnicodeDecodeError"
        /\ (IF Undecodable(crime_file) THEN crime_file.path ELSE coord_file.path)
               \in exc[1].names
        /\ report[1].handler = "UnicodeDecodeError"
        /\ IsEmpty(df_raw)

MissingColumns ==
    (Range(id_cols) \ crime_file.table.columns) \cup (coord_cols \ coord_file.table.columns)

\* C10: when both files parse and required columns are absent, load_data
\* fails with a KeyError, its report lists every absent column by name, and
\* it returns an empty frame.
C10_SchemaErrorListsAllMissing ==
    (Loaded /\ ~Undecodable(crime_file) /\ ~Undecodable(coord_file)
        /\ MissingColumns # {}) =>
        /\ exc # <<>>
        /\ exc[1].type = "KeyError"
        /\ report[1].handler = "KeyError"
        /\ report[1].names = MissingColumns
        /\ IsEmpty(df_raw)

====
